---- MODULE Spec2Model ----
(***************************************************************************)
(* Model of the TI SmartRF PSD capture decoder (ti_psd_parser.py): the     *)
(* record reader parse_psd_file, the PDU decoder parse_ble_packet and the  *)
(* AD-structure parser parse_ad_structures.                                *)
(*                                                                         *)
(* Representation.  A bytes object is a sequence of integers 0..255; the   *)
(* Python 0-based slice s[a:b] is Slice(s, a, b).  The str results of      *)
(* bytes.hex() and of the f"{x:02X}" formats are TLA+ strings built digit  *)
(* by digit.  A decoded text (device name) is the sequence of its Unicode  *)
(* code points, "" being << >>.  A dict is a function whose DOMAIN is its  *)
(* key set.  Optional[int] is << >> for None and << v >> for the value v.  *)
(* A float that is a multiple of 1/100 is kept as its number of 1/100s.    *)
(* An indexed read s[k] that Python would answer with IndexError (or a     *)
(* struct.unpack on a slice of the wrong size) sets the flag "raised".     *)
(***************************************************************************)
EXTENDS Integers, Sequences, FiniteSets, TLC

VARIABLES
    pc,         \* control position of the operation under analysis
    data,       \* parse_psd_file: the capture buffer read from the file
    rec_num,    \* parse_psd_file: loop variable of "for rec_num in range(num_records)"
    packets,    \* parse_psd_file: the list of BLEPacket built so far
    raw,        \* parse_ble_packet: the payload argument
    args,       \* parse_ble_packet: the arguments record_num, packet_num, timestamp
    pkt,        \* parse_ble_packet: the returned BLEPacket (<< >> before the call)
    ad_data,    \* parse_ad_structures: the argument "data"
    ad_st,      \* parse_ad_structures: locals i, structures, info (+ raised)
    devices,    \* analyze_and_report: the device table (address -> entry)
    pdu_counts, \* analyze_and_report: the PDU type histogram
    rep_i,      \* analyze_and_report: packets consumed by "for pkt in packets"
    pcap_packets, \* convert_psd_to_pcap: the list returned by parse_psd_packets
    base_time,  \* convert_psd_to_pcap: timestamp of the first packet
    out,        \* convert_psd_to_pcap: the bytes written to the output file
    pcap_i      \* convert_psd_to_pcap: packets consumed by the write loop

fileVars == <<data, rec_num, packets>>
reportVars == <<devices, pdu_counts, rep_i>>
pcapVars == <<pcap_packets, base_time, out, pcap_i>>

vars == <<pc, data, rec_num, packets, raw, args, pkt, ad_data, ad_st, reportVars, pcapVars>>

(***************************************************************************)
(* Program constants                                                       *)
(***************************************************************************)
RECORD_SIZE == 271

HEADER_SIZE == 16

BLE_ADV_ACCESS_ADDR == <<214, 190, 137, 142>>

RSSI_OFFSET == 73

(***************************************************************************)
(* Bytes, slices, integer decoding and formatting                          *)
(***************************************************************************)
Byte == 0..255

Min(a, b) == IF a < b THEN a ELSE b

Max(a, b) == IF a > b THEN a ELSE b

\* Python s[a:b] for 0 <= a, 0 <= b (clamped to the object, never raises)
Slice(s, a, b) ==
    LET hi == Min(b, Len(s))
    IN  IF a >= hi THEN << >> ELSE [k \in 1..(hi - a) |-> s[a + k]]

\* Python s[a:-n] for 0 <= a, n > 0
SliceNeg(s, a, n) == Slice(s, a, Max(Len(s) - n, 0))

\* Python s[::-1] / reversed(s)
Reverse(s) == [k \in 1..Len(s) |-> s[Len(s) + 1 - k]]

\* bit k (0 = least significant) of x
Bit(x, k) == (x \div (2 ^ k)) % 2

\* x & (2^k - 1)
LowBits(x, k) == x % (2 ^ k)

\* variant: sign threshold off by one
s8_m(b) == IF b > 128 THEN b - 256 ELSE b

\* (b - 256 if b > 127 else b): an unsigned byte read as 8-bit two's complement
s8(b) == IF b > 127 THEN b - 256 ELSE b

\* struct.unpack('<H', b)[0] for a 2-byte b
unpack_H(b) == b[1] + 256 * b[2]

\* little-endian unsigned value of the bytes b
RECURSIVE unpack_le(_)
unpack_le(b) == IF b = << >> THEN 0 ELSE Head(b) + 256 * unpack_le(Tail(b))

\* struct.unpack('<I', b)[0] for a 4-byte b
unpack_I(b) == unpack_le(b)

\* struct.unpack('<Q', b)[0] for an 8-byte b
unpack_Q(b) == unpack_le(b)

\* struct.pack of one little-endian unsigned field of n bytes
RECURSIVE pack_le(_, _)
pack_le(v, n) == IF n = 0 THEN << >> ELSE <<v % 256>> \o pack_le(v \div 256, n - 1)

HexLower == <<"0", "1", "2", "3", "4", "5", "6", "7", "8", "9", "a", "b", "c", "d", "e", "f">>

HexUpper == <<"0", "1", "2", "3", "4", "5", "6", "7", "8", "9", "A", "B", "C", "D", "E", "F">>

\* f"{x:02x}" and f"{x:02X}" for a byte x
hex2(x) == HexLower[(x \div 16) + 1] \o HexLower[(x % 16) + 1]

HEX2(x) == HexUpper[(x \div 16) + 1] \o HexUpper[(x % 16) + 1]

\* f"{x:04X}" for 0 <= x < 65536
HEX4(x) == HEX2(x \div 256) \o HEX2(x % 256)

\* bytes.hex() of b[lo..hi] (1-based, inclusive), halving the range
RECURSIVE HexRange(_, _, _)
HexRange(b, lo, hi) ==
    IF lo > hi THEN ""
    ELSE IF lo = hi THEN hex2(b[lo])
    ELSE LET mid == (lo + hi) \div 2
         IN  HexRange(b, lo, mid) \o HexRange(b, mid + 1, hi)

\* bytes.hex()
hex(b) == HexRange(b, 1, Len(b))

\* ':'.join(f'{x:02X}' for x in seq)
RECURSIVE JoinColon(_)
JoinColon(b) ==
    IF b = << >> THEN ""
    ELSE IF Len(b) = 1 THEN HEX2(b[1])
    ELSE HEX2(Head(b)) \o ":" \o JoinColon(Tail(b))

bytes_to_mac(b) == JoinColon(Reverse(b))

(***************************************************************************)
(* Lookup tables                                                           *)
(***************************************************************************)
get_pdu_type_name(t) ==
    CASE t = 0 -> "ADV_IND"
      [] t = 1 -> "ADV_DIRECT_IND"
      [] t = 2 -> "ADV_NONCONN_IND"
      [] t = 3 -> "SCAN_REQ"
      [] t = 4 -> "SCAN_RSP"
      [] t = 5 -> "CONNECT_IND"
      [] t = 6 -> "ADV_SCAN_IND"
      [] OTHER -> "UNKNOWN_0x" \o HEX2(t)

get_ad_type_name(t) ==
    CASE t = 1 -> "Flags"
      [] t = 2 -> "Incomplete 16-bit UUIDs"
      [] t = 3 -> "Complete 16-bit UUIDs"
      [] t = 6 -> "Incomplete 128-bit UUIDs"
      [] t = 7 -> "Complete 128-bit UUIDs"
      [] t = 8 -> "Shortened Local Name"
      [] t = 9 -> "Complete Local Name"
      [] t = 10 -> "TX Power Level"
      [] t = 22 -> "Service Data (16-bit)"
      [] t = 255 -> "Manufacturer Specific"
      [] OTHER -> "Type_0x" \o HEX2(t)

get_company_name(c) ==
    CASE c = 76 -> "Apple"
      [] c = 1240 -> "Fujifilm"
      [] c = 6 -> "Microsoft"
      [] c = 89 -> "Nordic Semiconductor"
      [] c = 224 -> "Google"
      [] c = 117 -> "Samsung"
      [] c = 13 -> "Texas Instruments"
      [] c = 70 -> "Mediatek"
      [] c = 736 -> "Fitbit"
      [] OTHER -> "Company_0x" \o HEX4(c)

(***************************************************************************)
(* bytes.decode('utf-8', errors='replace') and str.rstrip('\x00')          *)
(***************************************************************************)
REPLACEMENT == 65533

\* number of continuation bytes announced by lead byte b (0: none, -1: invalid lead)
Utf8Need(b) ==
    IF b < 128 THEN 0
    ELSE IF b >= 194 /\ b <= 223 THEN 1
    ELSE IF b >= 224 /\ b <= 239 THEN 2
    ELSE IF b >= 240 /\ b <= 244 THEN 3
    ELSE -1

\* is c a legal k-th continuation byte (k = 1, 2, 3) after lead byte b
Utf8ContOk(b, k, c) ==
    IF k > 1 THEN c >= 128 /\ c <= 191
    ELSE CASE b = 224 -> c >= 160 /\ c <= 191
           [] b = 237 -> c >= 128 /\ c <= 159
           [] b = 240 -> c >= 144 /\ c <= 191
           [] b = 244 -> c >= 128 /\ c <= 143
           [] OTHER -> c >= 128 /\ c <= 191

\* number of legal continuation bytes present after the lead byte at 1-based p
RECURSIVE Utf8Good(_, _, _, _)
Utf8Good(s, p, need, k) ==
    IF k > need \/ p + k > Len(s) THEN k - 1
    ELSE IF Utf8ContOk(s[p], k, s[p + k]) THEN Utf8Good(s, p, need, k + 1)
    ELSE k - 1

Utf8Value(s, p, need) ==
    CASE need = 0 -> s[p]
      [] need = 1 -> (s[p] - 192) * 64 + (s[p + 1] - 128)
      [] need = 2 -> (s[p] - 224) * 4096 + (s[p + 1] - 128) * 64 + (s[p + 2] - 128)
      [] need = 3 -> (s[p] - 240) * 262144 + (s[p + 1] - 128) * 4096
                        + (s[p + 2] - 128) * 64 + (s[p + 3] - 128)

\* every maximal ill-formed subsequence becomes one U+FFFD
RECURSIVE Utf8Decode(_, _)
Utf8Decode(s, p) ==
    IF p > Len(s) THEN << >>
    ELSE LET need == Utf8Need(s[p])
         IN  IF need = -1 THEN <<REPLACEMENT>> \o Utf8Decode(s, p + 1)
             ELSE LET good == Utf8Good(s, p, need, 1)
                  IN  IF good = need
                      THEN <<Utf8Value(s, p, need)>> \o Utf8Decode(s, p + need + 1)
                      ELSE <<REPLACEMENT>> \o Utf8Decode(s, p + good + 1)

decode_utf8_replace(b) == Utf8Decode(b, 1)

\* variant: str.strip('\x00'), which also removes leading NULs
RECURSIVE rstrip_nul_m(_)
rstrip_nul_m(t) ==
    IF t # << >> /\ t[Len(t)] = 0 THEN rstrip_nul_m(SubSeq(t, 1, Len(t) - 1))
    ELSE IF t # << >> /\ t[1] = 0 THEN rstrip_nul_m(Tail(t))
    ELSE t

\* str.rstrip('\x00')
RECURSIVE rstrip_nul(_)
rstrip_nul(t) ==
    IF t # << >> /\ t[Len(t)] = 0 THEN rstrip_nul(SubSeq(t, 1, Len(t) - 1)) ELSE t

\* str.encode('utf-8') of one code point (surrogates cannot be encoded)
Utf8EncodeChar(c) ==
    IF c < 128 THEN <<c>>
    ELSE IF c < 2048 THEN <<192 + (c \div 64), 128 + (c % 64)>>
    ELSE IF c < 65536 THEN <<224 + (c \div 4096), 128 + ((c \div 64) % 64), 128 + (c % 64)>>
    ELSE <<240 + (c \div 262144), 128 + ((c \div 4096) % 64),
           128 + ((c \div 64) % 64), 128 + (c % 64)>>

RECURSIVE encode_utf8(_)
encode_utf8(t) == IF t = << >> THEN << >> ELSE Utf8EncodeChar(Head(t)) \o encode_utf8(Tail(t))

(***************************************************************************)
(* dict helpers and checked indexing                                       *)
(***************************************************************************)
EmptyDict == [k \in {} |-> 0]

\* d[k] = v
Put(d, k, v) == (k :> v) @@ d

\* d.get(k, dflt)
Get(d, k, dflt) == IF k \in DOMAIN d THEN d[k] ELSE dflt

\* does the 0-based index k exist in s (otherwise s[k] raises IndexError)
InRange(s, k) == k >= 0 /\ k < Len(s)

\* s[k], 0-based; the callers record InRange(s, k) in "raised"
At(s, k) == IF InRange(s, k) THEN s[k + 1] ELSE 0

(***************************************************************************)
(* parse_ad_structures                                                     *)
(***************************************************************************)
FlagNames ==
    <<"LE Limited Discoverable", "LE General Discoverable", "BR/EDR Not Supported",
      "LE+BR/EDR Controller", "LE+BR/EDR Host">>

\* the list built by the five "if f & mask: flags.append(...)" statements
FlagList(f) ==
    LET idx == SelectSeq(<<0, 1, 2, 3, 4>>, LAMBDA k : Bit(f, k) = 1)
    IN  [j \in 1..Len(idx) |-> FlagNames[idx[j] + 1]]

\* the list built by "for j in range(0, len(ad_data), 2): if j + 2 <= len(ad_data): ..."
UuidList(ad) ==
    [j \in 1..(Len(ad) \div 2) |-> "0x" \o HEX4(unpack_H(Slice(ad, 2 * (j - 1), 2 * j)))]

\* variant: info.setdefault('device_name', name), the first name is kept
SetName_m(info, name) == IF "device_name" \in DOMAIN info THEN info ELSE Put(info, "device_name", name)

\* "info['device_name'] = name"
SetName(info, name) == Put(info, "device_name", name)

\* variant: info['service_uuids'] = uuids, the list of the last element only
SetUuids_m(info, uuids) == Put(info, "service_uuids", uuids)

\* "info.setdefault('service_uuids', []).extend(uuids)"
SetUuids(info, uuids) ==
    Put(info, "service_uuids", Get(info, "service_uuids", << >>) \o uuids)

\* the if/elif chain on ad_type: the keys added to "structure" and the new "info"
AdDecode(ad_type, ad, info) ==
    IF ad_type = 1 /\ ad # << >>
    THEN LET flags == FlagList(ad[1])
         IN  [extra |-> "flags" :> flags, info |-> Put(info, "flags", flags)]
    ELSE IF ad_type \in {8, 9} /\ ad # << >>
    THEN LET name == rstrip_nul(decode_utf8_replace(ad))
         IN  [extra |-> "name" :> name, info |-> SetName(info, name)]
    ELSE IF ad_type = 10 /\ ad # << >>
    THEN LET tx == s8(ad[1])
         IN  [extra |-> "tx_power" :> tx, info |-> Put(info, "tx_power", tx)]
    ELSE IF ad_type = 255 /\ Len(ad) >= 2
    THEN LET company_id == unpack_H(Slice(ad, 0, 2))
             mfg == hex(Slice(ad, 2, Len(ad)))
         IN  [extra |-> ("company_id" :> company_id)
                        @@ ("company_name" :> get_company_name(company_id))
                        @@ ("mfg_data" :> mfg),
              info |-> Put(Put(info, "manufacturer", get_company_name(company_id)),
                           "manufacturer_data", mfg)]
    ELSE IF ad_type \in {2, 3}
    THEN LET uuids == UuidList(ad)
         IN  [extra |-> "uuids" :> uuids,
              info |-> SetUuids(info, uuids)]
    ELSE [extra |-> EmptyDict, info |-> info]

\* locals after "structures = []; info = {}; i = 0"
AdInit == [i |-> 0, structures |-> << >>, info |-> EmptyDict, raised |-> FALSE]

\* the loop test "while i < len(data) - 1" (an exception ends the loop too)
AdLoopCond(d, st) == ~st.raised /\ st.i < Len(d) - 1

\* variant: the span test off by one ("i + length > len(data)")
AdBreaks_m(d, st) ==
    LET length == At(d, st.i)
    IN  length = 0 \/ st.i + length > Len(d)

\* "if length == 0 or i + length >= len(data): break"
AdBreaks(d, st) ==
    LET length == At(d, st.i)
    IN  length = 0 \/ st.i + length >= Len(d)

\* one pass through the loop body that does not break
AdBody(d, st) ==
    LET i == st.i
        length == At(d, i)
        ad_type == At(d, i + 1)
        ad == Slice(d, i + 2, i + 1 + length)
        structure == [type |-> ad_type, type_name |-> get_ad_type_name(ad_type),
                      data_hex |-> hex(ad), length |-> length - 1]
        dec == AdDecode(ad_type, ad, st.info)
    IN  IF ~InRange(d, i) \/ ~InRange(d, i + 1)
        THEN [st EXCEPT !.raised = TRUE]
        ELSE [i |-> i + length + 1,
              structures |-> Append(st.structures, dec.extra @@ structure),
              info |-> dec.info,
              raised |-> FALSE]

RECURSIVE AdRun(_, _)
AdRun(d, st) ==
    IF AdLoopCond(d, st) /\ ~AdBreaks(d, st) THEN AdRun(d, AdBody(d, st)) ELSE st

\* the returned pair (structures, info)
parse_ad_structures(d) ==
    LET st == AdRun(d, AdInit)
    IN  [structures |-> st.structures, info |-> st.info, raised |-> st.raised]

(***************************************************************************)
(* parse_ble_packet                                                        *)
(***************************************************************************)
\* timestamp / 32.0, exact for timestamp < 2^53: whole microseconds and 1/32s
ticks_to_us(timestamp) == [us |-> timestamp \div 32, frac32 |-> timestamp % 32]

\* the dataclass constructor call at the head of parse_ble_packet
BLEPacket(r, record_num, packet_num, timestamp) ==
    [record_num |-> record_num, packet_num |-> packet_num, timestamp |-> timestamp,
     timestamp_us |-> ticks_to_us(timestamp), payload_len |-> Len(r), raw_payload |-> r,
     access_address |-> "", pdu_type |-> 0, pdu_type_name |-> "", pdu_length |-> 0,
     tx_addr_type |-> "",
     adv_address |-> "", scanner_address |-> "", initiator_address |-> "",
     target_address |-> "",
     device_name |-> << >>, manufacturer |-> "", manufacturer_data |-> "",
     tx_power |-> << >>, flags |-> << >>, service_uuids |-> << >>, ad_structures |-> << >>,
     rssi |-> 0, channel |-> 0, crc_ok |-> FALSE,
     conn_access_addr |-> "", conn_crc_init |-> "", conn_interval |-> 0,
     conn_latency |-> 0, conn_timeout |-> 0,
     raised |-> FALSE]

\* "PDU header": pdu_type, pdu_type_name, tx_addr_type, pdu_length
PduHeader(r, p) ==
    LET pdu_header == Slice(r, 4, 6)
        b0 == At(pdu_header, 0)
        b1 == At(pdu_header, 1)
    IN  IF ~InRange(pdu_header, 0) \/ ~InRange(pdu_header, 1)
        THEN [p EXCEPT !.raised = TRUE]
        ELSE [p EXCEPT !.pdu_type = LowBits(b0, 4),
                       !.pdu_type_name = get_pdu_type_name(LowBits(b0, 4)),
                       !.tx_addr_type = IF Bit(b0, 6) = 1 THEN "Random" ELSE "Public",
                       !.pdu_length = LowBits(b1, 6)]

\* "Extract RSSI and channel from last 2 bytes": rssi, channel, crc_ok
RadioStatus(r, p) ==
    IF Len(r) >= 2
    THEN LET rssi_raw == r[Len(r) - 1]
             status == r[Len(r)]
         IN  [p EXCEPT !.rssi = s8(rssi_raw) - RSSI_OFFSET,
                       !.channel = LowBits(status, 6),
                       !.crc_ok = (Bit(status, 7) = 1)]
    ELSE p

\* variant: the slice keeps the two trailing RSSI/status bytes ("raw[12:]")
AdvData_m(r) == IF Len(r) > 14 THEN Slice(r, 12, Len(r)) ELSE << >>

\* "adv_data = raw[12:-2] if len(raw) > 14 else bytes()"
AdvData(r) == IF Len(r) > 14 THEN SliceNeg(r, 12, 2) ELSE << >>

\* branch "pdu_type in (0x00, 0x02, 0x06)"
AdvBody(r, p) ==
    IF Len(r) >= 12
    THEN LET p1 == [p EXCEPT !.adv_address = bytes_to_mac(Slice(r, 6, 12))]
             adv_data == AdvData(r)
             res == parse_ad_structures(adv_data)
             info == res.info
         IN  IF adv_data = << >> THEN p1
             ELSE IF res.raised THEN [p1 EXCEPT !.raised = TRUE]
             ELSE [p1 EXCEPT !.ad_structures = res.structures,
                             !.device_name = Get(info, "device_name", << >>),
                             !.manufacturer = Get(info, "manufacturer", ""),
                             !.manufacturer_data = Get(info, "manufacturer_data", ""),
                             !.tx_power = IF "tx_power" \in DOMAIN info
                                          THEN <<info["tx_power"]>> ELSE << >>,
                             !.flags = Get(info, "flags", << >>),
                             !.service_uuids = Get(info, "service_uuids", << >>)]
    ELSE p

\* branch "pdu_type == 0x04" (SCAN_RSP)
ScanRspBody(r, p) ==
    IF Len(r) >= 12
    THEN LET p1 == [p EXCEPT !.adv_address = bytes_to_mac(Slice(r, 6, 12))]
             adv_data == AdvData(r)
             res == parse_ad_structures(adv_data)
             info == res.info
         IN  IF adv_data = << >> THEN p1
             ELSE IF res.raised THEN [p1 EXCEPT !.raised = TRUE]
             ELSE [p1 EXCEPT !.ad_structures = res.structures,
                             !.device_name = Get(info, "device_name", << >>),
                             !.manufacturer = Get(info, "manufacturer", ""),
                             !.manufacturer_data = Get(info, "manufacturer_data", "")]
    ELSE p

\* branch "pdu_type == 0x03" (SCAN_REQ)
\* variant: only the scanner address is set
ScanReqBody_m(r, p) ==
    IF Len(r) >= 18
    THEN [p EXCEPT !.scanner_address = bytes_to_mac(Slice(r, 6, 12))]
    ELSE p

ScanReqBody(r, p) ==
    IF Len(r) >= 18
    THEN [p EXCEPT !.scanner_address = bytes_to_mac(Slice(r, 6, 12)),
                   !.adv_address = bytes_to_mac(Slice(r, 12, 18))]
    ELSE p

\* does struct.unpack('<H', b) accept b
UnpackHOk(b) == Len(b) = 2

\* variant: CONNECT_IND guarded by the SCAN_REQ minimum of 18 bytes
ConnectIndGuard_m(r) == Len(r) >= 18

\* "if len(raw) >= 40"
ConnectIndGuard(r) == Len(r) >= 40

\* variant: the connection access address kept in wire order
ConnAccessAddr_m(ll_data) == hex(Slice(ll_data, 0, 4))

\* "ll_data[0:4][::-1].hex()"
ConnAccessAddr(ll_data) == hex(Reverse(Slice(ll_data, 0, 4)))

\* branch "pdu_type == 0x05" (CONNECT_IND)
ConnectIndBody(r, p) ==
    IF ConnectIndGuard(r)
    THEN LET ll_data == Slice(r, 18, 40)
             iv == Slice(ll_data, 10, 12)
             lat == Slice(ll_data, 12, 14)
             to == Slice(ll_data, 14, 16)
             p1 == [p EXCEPT !.initiator_address = bytes_to_mac(Slice(r, 6, 12)),
                             !.adv_address = bytes_to_mac(Slice(r, 12, 18)),
                             !.conn_access_addr = ConnAccessAddr(ll_data),
                             !.conn_crc_init = hex(Slice(ll_data, 4, 7))]
         IN  IF ~UnpackHOk(iv) \/ ~UnpackHOk(lat) \/ ~UnpackHOk(to)
             THEN [p1 EXCEPT !.raised = TRUE]
             ELSE [p1 EXCEPT !.conn_interval = unpack_H(iv) * 125,
                             !.conn_latency = unpack_H(lat),
                             !.conn_timeout = unpack_H(to) * 10]
    ELSE p

\* variant: ADV_DIRECT_IND (0x01) sent down the ADV_IND branch
PduBody_m(r, p) ==
    IF p.pdu_type \in {0, 1, 2, 6} THEN AdvBody(r, p)
    ELSE IF p.pdu_type = 4 THEN ScanRspBody(r, p)
    ELSE IF p.pdu_type = 3 THEN ScanReqBody(r, p)
    ELSE IF p.pdu_type = 5 THEN ConnectIndBody(r, p)
    ELSE p

\* "Parse based on PDU type"
PduBody(r, p) ==
    IF p.pdu_type \in {0, 2, 6} THEN AdvBody(r, p)
    ELSE IF p.pdu_type = 4 THEN ScanRspBody(r, p)
    ELSE IF p.pdu_type = 3 THEN ScanReqBody(r, p)
    ELSE IF p.pdu_type = 5 THEN ConnectIndBody(r, p)
    ELSE p

\* variant: the length test only covers the access address
TooShort_m(r) == Len(r) < 4

\* "if len(raw) < 6: return pkt"
TooShort(r) == Len(r) < 6

\* "is_advertising = (raw[0:4] == BLE_ADV_ACCESS_ADDR)"
IsAdvertising(r) == Slice(r, 0, 4) = BLE_ADV_ACCESS_ADDR

parse_ble_packet(r, record_num, packet_num, timestamp) ==
    LET p0 == BLEPacket(r, record_num, packet_num, timestamp)
        p1 == [p0 EXCEPT !.access_address = hex(Slice(r, 0, 4))]
        p2 == PduHeader(r, p1)
        p3 == RadioStatus(r, p2)
    IN  IF TooShort(r) THEN p0
        ELSE IF ~IsAdvertising(r) THEN [p1 EXCEPT !.pdu_type_name = "DATA_CHANNEL"]
        ELSE IF p2.raised THEN p2
        ELSE PduBody(r, p3)

(***************************************************************************)
(* parse_psd_file                                                          *)
(***************************************************************************)
\* "num_records = len(data) // RECORD_SIZE"
num_records(d) == Len(d) \div RECORD_SIZE

\* variant: the payload slice starts at the payload length byte (offset 15)
PayloadSlice_m(d, offset, payload_len) == Slice(d, offset + 15, offset + 15 + payload_len)

\* "payload = data[offset+16:offset+16+payload_len]"
PayloadSlice(d, offset, payload_len) == Slice(d, offset + 16, offset + 16 + payload_len)

\* the header fields and the payload of record number n (0-based) of buffer d
ReadRecord(d, n) ==
    LET offset == n * RECORD_SIZE
        payload_len == d[offset + 15 + 1]
    IN  [packet_info |-> d[offset + 1],
         packet_num |-> unpack_I(Slice(d, offset + 1, offset + 5)),
         timestamp |-> unpack_Q(Slice(d, offset + 5, offset + 13)),
         total_len |-> unpack_H(Slice(d, offset + 13, offset + 15)),
         payload_len |-> payload_len,
         payload |-> PayloadSlice(d, offset, payload_len)]

\* variant: the short-payload filter set at the decoder's own 6-byte threshold
KeepsRecord_m(payload) == Len(payload) >= 6

\* "if len(payload) >= 4"
KeepsRecord(payload) == Len(payload) >= 4

\* the list "packets" after the loop body has run for record n
LoopBody(d, n, pkts) ==
    LET rec == ReadRecord(d, n)
    IN  IF KeepsRecord(rec.payload)
        THEN Append(pkts, parse_ble_packet(rec.payload, n + 1, rec.packet_num, rec.timestamp))
        ELSE pkts

\* the list returned by parse_psd_file after n iterations of its loop
RECURSIVE ParseUpTo(_, _)
ParseUpTo(d, n) == IF n = 0 THEN << >> ELSE LoopBody(d, n - 1, ParseUpTo(d, n - 1))

parse_psd_file(d) == ParseUpTo(d, num_records(d))

(***************************************************************************)
(* analyze_and_report: the device statistics loop                          *)
(***************************************************************************)
\* "pdu_counts[pkt.pdu_type_name] = pdu_counts.get(pkt.pdu_type_name, 0) + 1"
CountPdu(counts, p) == Put(counts, p.pdu_type_name, Get(counts, p.pdu_type_name, 0) + 1)

\* "addr = pkt.adv_address or pkt.scanner_address or pkt.initiator_address"
ReportAddr(p) ==
    IF p.adv_address # "" THEN p.adv_address
    ELSE IF p.scanner_address # "" THEN p.scanner_address
    ELSE p.initiator_address

\* the entry created "if addr not in devices"
NewDevice(p) ==
    [name |-> p.device_name, manufacturer |-> p.manufacturer, count |-> 0,
     rssi_sum |-> 0, pdu_types |-> {}, addr_type |-> p.tx_addr_type]

\* variant: a later non-empty name replaces the stored one
MergeName_m(entry, p) ==
    IF p.device_name # << >> THEN [entry EXCEPT !.name = p.device_name] ELSE entry

\* "if pkt.device_name and not devices[addr]['name']: devices[addr]['name'] = ..."
MergeName(entry, p) ==
    IF p.device_name # << >> /\ entry.name = << >>
    THEN [entry EXCEPT !.name = p.device_name]
    ELSE entry

\* "if pkt.manufacturer and not devices[addr]['manufacturer']: ..."
MergeManufacturer(entry, p) ==
    IF p.manufacturer # "" /\ entry.manufacturer = ""
    THEN [entry EXCEPT !.manufacturer = p.manufacturer]
    ELSE entry

\* "if addr:" and its body
TrackDevice(devs, p) ==
    LET addr == ReportAddr(p)
        e0 == IF addr \in DOMAIN devs THEN devs[addr] ELSE NewDevice(p)
        e1 == [e0 EXCEPT !.count = @ + 1,
                         !.rssi_sum = @ + p.rssi,
                         !.pdu_types = @ \cup {p.pdu_type_name}]
    IN  IF addr # "" THEN Put(devs, addr, MergeManufacturer(MergeName(e1, p), p))
        ELSE devs

(***************************************************************************)
(* it_psd_to_pcap.py: parse_psd_packets and convert_psd_to_pcap            *)
(* A time in microseconds is a multiple of 1/32; timestamp_us is kept as   *)
(* [us, frac32] like BLEPacket.timestamp_us, a difference of two times as  *)
(* its number of 1/32 microseconds.                                        *)
(***************************************************************************)
\* 0xa1b2c3d4 as its four base-256 digits, most significant first
PCAP_MAGIC == <<161, 178, 195, 212>>

PCAP_VERSION_MAJOR == 2

PCAP_VERSION_MINOR == 4

PCAP_THISZONE == 0

PCAP_SIGFIGS == 0

PCAP_SNAPLEN == 65535

DLT_BLUETOOTH_LE_LL == 251

\* "timestamp_us = timestamp / 32.0"
pcap_timestamp_us(timestamp) == [us |-> timestamp \div 32, frac32 |-> timestamp % 32]

\* one iteration of the loop of parse_psd_packets (record sizes as in the decoder)
PcapLoopBody(d, n, pkts) ==
    LET offset == n * RECORD_SIZE
        packet_num == unpack_I(Slice(d, offset + 1, offset + 5))
        timestamp == unpack_Q(Slice(d, offset + 5, offset + 13))
        payload_len == At(d, offset + 15)
        payload == Slice(d, offset + 16, offset + 16 + payload_len)
    IN  IF Len(payload) >= 4
        THEN Append(pkts, [timestamp_us |-> pcap_timestamp_us(timestamp),
                           packet_num |-> packet_num, payload |-> payload])
        ELSE pkts

RECURSIVE PcapParseUpTo(_, _)
PcapParseUpTo(d, n) ==
    IF n = 0 THEN << >> ELSE PcapLoopBody(d, n - 1, PcapParseUpTo(d, n - 1))

parse_psd_packets(d) == PcapParseUpTo(d, Len(d) \div RECORD_SIZE)

ZeroUs == [us |-> 0, frac32 |-> 0]

\* "base_time = packets[0][0]" if packets, else 0
BaseTime(pkts) == IF pkts # << >> THEN pkts[1].timestamp_us ELSE ZeroUs

\* "rel_time = timestamp_us - base_time", in 1/32 microseconds
RelTime(t, base) == (t.us - base.us) * 32 + (t.frac32 - base.frac32)

\* int(x / y) for integers x and y > 0: the quotient truncated towards zero
TruncDiv(x, y) == IF x >= 0 THEN x \div y ELSE 0 - ((0 - x) \div y)

\* x % y of Python for y > 0: the remainder in 0 .. y-1
FloorMod(x, y) == IF x >= 0 THEN x % y ELSE (y - ((0 - x) % y)) % y

\* "ts_sec = int(timestamp_us / 1_000_000)", rel in 1/32 microseconds
ts_sec(rel) == TruncDiv(rel, 32 * 1000000)

\* "ts_usec = int(timestamp_us % 1_000_000)", rel in 1/32 microseconds
ts_usec(rel) == FloorMod(rel, 32 * 1000000) \div 32

\* does struct.pack('<I', v) raise struct.error; the upper limit 4294967295 is
\* above every number of the model
PackIRaises(v) == v < 0

\* does the struct.pack('<IIII', ...) of write_pcap_packet raise
PacketRaises(rel, payload) ==
    PackIRaises(ts_sec(rel)) \/ PackIRaises(ts_usec(rel)) \/ PackIRaises(Len(payload))

\* the bytes write_pcap_header writes: struct.pack('<IHHIIII', ...)
PcapHeader(link_type) ==
    Reverse(PCAP_MAGIC) \o pack_le(PCAP_VERSION_MAJOR, 2) \o pack_le(PCAP_VERSION_MINOR, 2)
    \o pack_le(PCAP_THISZONE, 4) \o pack_le(PCAP_SIGFIGS, 4) \o pack_le(PCAP_SNAPLEN, 4)
    \o pack_le(link_type, 4)

\* the bytes write_pcap_packet writes: the packet header, then the payload
PcapPacket(rel, payload) ==
    pack_le(ts_sec(rel), 4) \o pack_le(ts_usec(rel), 4)
    \o pack_le(Len(payload), 4) \o pack_le(Len(payload), 4) \o payload

(***************************************************************************)
(* Bounds and input sets                                                   *)
(***************************************************************************)
\* longest advertising data enumerated byte by byte
MaxAdLen == 4

\* most AD elements concatenated in one advertising data
MaxElems == 2

\* longest payload of the truncation family
MaxPktLen == 42

\* most complete records in one capture buffer
MaxRecords == 2

\* most records in a capture buffer handed to analyze_and_report
MaxReportPkts == 3

\* most records in a capture buffer handed to convert_psd_to_pcap
MaxPcapPkts == 2

\* longest device name (code points) of the round-trip family
MaxNameLen == 2

\* all concatenations of at most n members of E
RECURSIVE ElemSeqs(_, _)
ElemSeqs(E, n) ==
    IF n = 0 THEN {<< >>}
    ELSE LET S == ElemSeqs(E, n - 1) IN S \cup {s \o e : s \in S, e \in E}

\* all sequences over A of length at most n
SeqsUpTo(A, n) == UNION {[1..k -> A] : k \in 0..n}

\* byte values used as length, type and data in the exhaustive family
AdBytes == {0, 1, 2, 3, 9, 10, 255}

\* well-formed AD elements: flags, names, TX power, manufacturer, UUIDs, other
AdElems ==
    {<<2, 1, 6>>, <<2, 1, 31>>, <<1, 1>>,
     <<3, 9, 65, 66>>, <<2, 8, 67>>, <<3, 9, 65, 0>>, <<3, 9, 195, 169>>, <<2, 9, 195>>,
     <<2, 9, 0>>, <<4, 9, 226, 130, 172>>,
     <<2, 10, 128>>, <<2, 10, 4>>,
     <<3, 255, 76, 0>>, <<4, 255, 216, 4, 7>>, <<2, 255, 1>>, <<3, 255, 52, 18>>,
     <<3, 3, 15, 24>>, <<4, 2, 1, 2, 3>>,
     <<2, 22, 5>>, <<1, 9>>}

\* what may follow the last well-formed element
AdTails == {<< >>, <<0>>, <<0, 9>>, <<5, 9, 65>>, <<7>>, <<2, 9>>}

\* code points of the device names of the round-trip family (NUL, A, e-acute, euro, emoji)
NameChars == {0, 65, 233, 8364, 128512}

Names == SeqsUpTo(NameChars, MaxNameLen) \ {<< >>}

\* a single Complete Local Name element: length byte, 0x09, the UTF-8 bytes of the name
NameElement(name) == LET b == encode_utf8(name) IN <<Len(b) + 1, 9>> \o b

AdInputs ==
    SeqsUpTo(AdBytes, MaxAdLen)
    \cup {s \o t : s \in ElemSeqs(AdElems, MaxElems), t \in AdTails}
    \cup {NameElement(n) : n \in Names}

\* a non-advertising access address
DATA_ACCESS_ADDR == <<214, 190, 137, 143>>

AdvAddr == <<17, 34, 51, 68, 85, 102>>

\* payload bytes 6..41: two addresses, a 22-byte LL block, two trailing bytes
BodyA ==
    <<161, 162, 163, 164, 165, 166>> \o AdvAddr
    \o <<120, 86, 52, 18, 171, 205, 239, 1, 2, 0, 16, 0, 2, 1, 244, 1, 255, 255, 255, 255, 31, 5>>
    \o <<200, 165>>

BodyB ==
    <<2, 1, 6, 3, 9, 65>> \o <<66, 0, 0, 1, 2, 3>>
    \o <<1, 2, 3, 4, 5, 6, 7, 8, 9, 10, 255, 255, 255, 255, 255, 255, 0, 0, 0, 0, 0, 0>>
    \o <<128, 63>>

\* body b cut or zero-filled to n bytes
FitBody(b, n) == [k \in 1..n |-> IF k <= Len(b) THEN b[k] ELSE 0]

\* first PDU header byte: every type nibble with three settings of the upper bits
Hdr0 == {t + f : t \in 0..15, f \in {0, 64, 176}}

TruncInputs ==
    {Slice(aa \o <<h0, h1>> \o FitBody(b, MaxPktLen - 6), 0, n) :
        aa \in {BLE_ADV_ACCESS_ADDR, DATA_ACCESS_ADDR}, h0 \in Hdr0, h1 \in {0, 229},
        b \in {BodyA, BodyB}, n \in 0..MaxPktLen}

PktAdElems ==
    {<<2, 1, 6>>, <<3, 9, 65, 66>>, <<2, 8, 67>>, <<3, 9, 65, 0>>, <<2, 10, 128>>,
     <<3, 255, 76, 0>>, <<4, 255, 216, 4, 7>>, <<3, 3, 15, 24>>, <<4, 2, 1, 2, 3>>,
     <<2, 22, 5>>}

PktAds ==
    {s \o t : s \in ElemSeqs(PktAdElems, MaxElems), t \in {<< >>, <<0, 9>>, <<5, 9, 65>>}}
    \cup {NameElement(n) : n \in Names}

\* advertising PDUs carrying AD data: access address, header, address, AD, RSSI, status
AdPktInputs ==
    {BLE_ADV_ACCESS_ADDR \o <<h0, 37>> \o AdvAddr \o ad \o tr :
        h0 \in {0, 2, 4, 6, 68, 1}, ad \in PktAds,
        tr \in {<<0, 0>>, <<128, 165>>, <<127, 255>>}}

\* 8-byte advertising PDUs with every RSSI byte
RssiInputs ==
    {BLE_ADV_ACCESS_ADDR \o <<t, 0, r, st>> : t \in 0..15, r \in Byte, st \in {0, 165, 63}}

PktInputs == TruncInputs \cup AdPktInputs \cup RssiInputs

ArgInputs ==
    {[record_num |-> 1, packet_num |-> 7, timestamp |-> 1000],
     [record_num |-> 3, packet_num |-> 70000, timestamp |-> 33]}

\* one 271-byte record: 16 header bytes, then the content padded with "fill"
MkRecord(content, payload_len, fill) ==
    <<1>> \o pack_le(payload_len + 1, 4) \o pack_le(32 * payload_len + 5, 8)
    \o pack_le(payload_len + 2, 2) \o <<payload_len>>
    \o [k \in 1..(RECORD_SIZE - HEADER_SIZE) |-> IF k <= Len(content) THEN content[k] ELSE fill]

RecordContents ==
    {BLE_ADV_ACCESS_ADDR \o <<0, 0>> \o AdvAddr \o <<200, 37>>,
     BLE_ADV_ACCESS_ADDR \o <<64, 9>> \o AdvAddr \o <<3, 9, 65, 66>> \o <<128, 165>>}

RecordInputs ==
    {MkRecord(c, l, f) : c \in RecordContents, l \in {0, 3, 4, 14, 255}, f \in {0, 238}}

\* a trailing partial record
PartialInputs ==
    {Slice(MkRecord(BLE_ADV_ACCESS_ADDR \o <<0, 0>> \o AdvAddr \o <<200, 37>>, 14, 0), 0, n) :
        n \in {0, 1, RECORD_SIZE - 1}}

FileInputs == {b \o t : b \in ElemSeqs(RecordInputs, MaxRecords), t \in PartialInputs}

ScanAddr == <<193, 194, 195, 196, 197, 198>>

OtherAddr == <<33, 34, 35, 36, 37, 38>>

LLData == <<120, 86, 52, 18, 171, 205, 239, 1, 2, 0, 16, 0, 2, 1, 244, 1, 255, 255, 255, 255, 31, 5>>

\* payloads of the records handed to analyze_and_report: advertising PDUs of two
\* advertisers with and without names and manufacturers, scan requests and
\* connection requests (complete and one byte short), a data channel packet,
\* a 5-byte payload and a payload the file reader drops
ReportPayloads ==
    {BLE_ADV_ACCESS_ADDR \o <<0, 8>> \o AdvAddr \o <<200, 165>>,
     BLE_ADV_ACCESS_ADDR \o <<0, 12>> \o AdvAddr \o <<3, 9, 65, 66>> \o <<190, 165>>,
     BLE_ADV_ACCESS_ADDR \o <<4, 15>> \o AdvAddr \o <<2, 9, 67, 3, 255, 76, 0>> \o <<180, 165>>,
     BLE_ADV_ACCESS_ADDR \o <<2, 12>> \o AdvAddr \o <<3, 255, 216, 4>> \o <<170, 37>>,
     BLE_ADV_ACCESS_ADDR \o <<6, 11>> \o OtherAddr \o <<2, 9, 68>> \o <<160, 165>>,
     BLE_ADV_ACCESS_ADDR \o <<3, 12>> \o ScanAddr \o AdvAddr \o <<150, 165>>,
     BLE_ADV_ACCESS_ADDR \o <<3, 12>> \o ScanAddr \o Slice(AdvAddr, 0, 3) \o <<150, 165>>,
     BLE_ADV_ACCESS_ADDR \o <<5, 34>> \o ScanAddr \o OtherAddr \o LLData \o <<140, 165>>,
     BLE_ADV_ACCESS_ADDR \o <<5, 34>> \o ScanAddr \o OtherAddr \o Slice(LLData, 0, 19) \o <<140, 165>>,
     DATA_ACCESS_ADDR \o <<1, 2, 3, 4>>,
     BLE_ADV_ACCESS_ADDR \o <<0>>,
     <<214, 190, 137>>}

\* a record with the given packet number and timestamp (in 1/32 microseconds)
MkRecordTs(content, packet_num, timestamp) ==
    <<1>> \o pack_le(packet_num, 4) \o pack_le(timestamp, 8)
    \o pack_le(Len(content) + 2, 2) \o <<Len(content)>>
    \o [k \in 1..(RECORD_SIZE - HEADER_SIZE) |-> IF k <= Len(content) THEN content[k] ELSE 0]

\* timestamps: equal, a fraction of a microsecond apart, just under one second,
\* one second and two seconds apart
PcapTimestamps == {0, 33, 31999999, 32000000, 64000032}

PcapPayloads ==
    {BLE_ADV_ACCESS_ADDR \o <<0, 8>> \o AdvAddr \o <<200, 165>>,
     <<1, 2, 3, 4>>,
     <<214, 190, 137>>,
     << >>}

PcapRecords ==
    {MkRecordTs(p, Len(p) + 7, t) : p \in PcapPayloads, t \in PcapTimestamps}

PcapFiles == {b \o t : b \in ElemSeqs(PcapRecords, MaxPcapPkts), t \in {<< >>, <<1, 2, 3>>}}

ReportFiles ==
    {f \in ElemSeqs({MkRecord(p, Len(p), 0) : p \in ReportPayloads}, MaxReportPkts) : f # << >>}

(***************************************************************************)
(* Specifications                                                          *)
(***************************************************************************)
IdleArgs == [record_num |-> 0, packet_num |-> 0, timestamp |-> 0]

IdleFile == data = << >> /\ rec_num = 0 /\ packets = << >>

IdlePkt == raw = << >> /\ args = IdleArgs /\ pkt = << >>

IdleAd == ad_data = << >> /\ ad_st = AdInit

IdleReport == devices = EmptyDict /\ pdu_counts = EmptyDict /\ rep_i = 0

IdlePcap == pcap_packets = << >> /\ base_time = ZeroUs /\ out = << >> /\ pcap_i = 0

\* parse_psd_file: after "data = f.read(); packets = []"
Init ==
    /\ pc = "file_loop"
    /\ data \in FileInputs
    /\ rec_num = 0
    /\ packets = << >>
    /\ IdlePkt
    /\ IdleAd
    /\ IdleReport
    /\ IdlePcap

\* one iteration of "for rec_num in range(num_records)"
ParseRecord ==
    /\ pc = "file_loop"
    /\ rec_num < num_records(data)
    /\ packets' = LoopBody(data, rec_num, packets)
    /\ rec_num' = rec_num + 1
    /\ UNCHANGED <<pc, data, raw, args, pkt, ad_data, ad_st, reportVars, pcapVars>>

\* "return packets"
FileReturn ==
    /\ pc = "file_loop"
    /\ rec_num >= num_records(data)
    /\ pc' = "file_done"
    /\ UNCHANGED <<data, rec_num, packets, raw, args, pkt, ad_data, ad_st, reportVars, pcapVars>>

Next == ParseRecord \/ FileReturn

Spec == Init /\ [][Next]_vars

\* parse_ble_packet called on its own
InitPkt ==
    /\ pc = "pkt_call"
    /\ raw \in PktInputs
    /\ args \in ArgInputs
    /\ pkt = << >>
    /\ IdleFile
    /\ IdleAd
    /\ IdleReport
    /\ IdlePcap

ParseBlePacket ==
    /\ pc = "pkt_call"
    /\ pkt' = parse_ble_packet(raw, args.record_num, args.packet_num, args.timestamp)
    /\ pc' = "pkt_done"
    /\ UNCHANGED <<data, rec_num, packets, raw, args, ad_data, ad_st, reportVars, pcapVars>>

NextPkt == ParseBlePacket

SpecPkt == InitPkt /\ [][NextPkt]_vars

\* parse_ad_structures called on its own, one loop iteration per step
InitAd ==
    /\ pc = "ad_loop"
    /\ ad_data \in AdInputs
    /\ ad_st = AdInit
    /\ IdleFile
    /\ IdlePkt
    /\ IdleReport
    /\ IdlePcap

\* an iteration that appends a structure
AdIterate ==
    /\ pc = "ad_loop"
    /\ AdLoopCond(ad_data, ad_st)
    /\ ~AdBreaks(ad_data, ad_st)
    /\ ad_st' = AdBody(ad_data, ad_st)
    /\ UNCHANGED <<pc, data, rec_num, packets, raw, args, pkt, ad_data, reportVars, pcapVars>>

\* an iteration that takes the "break"
AdBreak ==
    /\ pc = "ad_loop"
    /\ AdLoopCond(ad_data, ad_st)
    /\ AdBreaks(ad_data, ad_st)
    /\ pc' = "ad_done"
    /\ UNCHANGED <<data, rec_num, packets, raw, args, pkt, ad_data, ad_st, reportVars, pcapVars>>

\* the loop test fails: "return structures, info"
AdExit ==
    /\ pc = "ad_loop"
    /\ ~AdLoopCond(ad_data, ad_st)
    /\ pc' = "ad_done"
    /\ UNCHANGED <<data, rec_num, packets, raw, args, pkt, ad_data, ad_st, reportVars, pcapVars>>

NextAd == AdIterate \/ AdBreak \/ AdExit

SpecAd == InitAd /\ [][NextAd]_vars

\* analyze_and_report after "packets = parse_psd_file(filepath)", "devices = {}"
\* and "pdu_counts = {}"
InitReport ==
    /\ pc = "report_loop"
    /\ data \in ReportFiles
    /\ rec_num = num_records(data)
    /\ packets = parse_psd_file(data)
    /\ devices = EmptyDict
    /\ pdu_counts = EmptyDict
    /\ rep_i = 0
    /\ IdlePkt
    /\ IdleAd
    /\ IdlePcap

\* one iteration of "for pkt in packets"
ReportPacket ==
    /\ pc = "report_loop"
    /\ rep_i < Len(packets)
    /\ pdu_counts' = CountPdu(pdu_counts, packets[rep_i + 1])
    /\ devices' = TrackDevice(devices, packets[rep_i + 1])
    /\ rep_i' = rep_i + 1
    /\ UNCHANGED <<pc, fileVars, raw, args, pkt, ad_data, ad_st, pcapVars>>

\* the loop is exhausted: the tables are complete
ReportDone ==
    /\ pc = "report_loop"
    /\ rep_i >= Len(packets)
    /\ pc' = "report_done"
    /\ UNCHANGED <<fileVars, raw, args, pkt, ad_data, ad_st, reportVars, pcapVars>>

NextReport == ReportPacket \/ ReportDone

SpecReport == InitReport /\ [][NextReport]_vars

\* convert_psd_to_pcap called on a capture file whose content is data
InitPcap ==
    /\ pc = "pcap_call"
    /\ data \in PcapFiles
    /\ rec_num = 0
    /\ packets = << >>
    /\ IdlePcap
    /\ IdlePkt
    /\ IdleAd
    /\ IdleReport

\* "packets = parse_psd_packets(input_path)" and the choice of base_time
PcapParse ==
    /\ pc = "pcap_call"
    /\ pcap_packets' = parse_psd_packets(data)
    /\ base_time' = BaseTime(parse_psd_packets(data))
    /\ pc' = "pcap_open"
    /\ UNCHANGED <<fileVars, raw, args, pkt, ad_data, ad_st, reportVars, out, pcap_i>>

\* "with open(output_path, 'wb') as f: write_pcap_header(f, link_type)"
PcapWriteHeader ==
    /\ pc = "pcap_open"
    /\ out' = PcapHeader(DLT_BLUETOOTH_LE_LL)
    /\ pc' = "pcap_loop"
    /\ UNCHANGED <<fileVars, raw, args, pkt, ad_data, ad_st, reportVars,
                   pcap_packets, base_time, pcap_i>>

\* one iteration of "for timestamp_us, pkt_num, payload in packets" that writes
PcapWritePacket ==
    /\ pc = "pcap_loop"
    /\ pcap_i < Len(pcap_packets)
    /\ LET p == pcap_packets[pcap_i + 1]
           rel == RelTime(p.timestamp_us, base_time)
       IN  /\ ~PacketRaises(rel, p.payload)
           /\ out' = out \o PcapPacket(rel, p.payload)
    /\ pcap_i' = pcap_i + 1
    /\ UNCHANGED <<pc, fileVars, raw, args, pkt, ad_data, ad_st, reportVars,
                   pcap_packets, base_time>>

\* an iteration whose struct.pack raises struct.error: nothing of the packet is
\* written, the exception leaves the "with" block, which closes the file
PcapWriteRaises ==
    /\ pc = "pcap_loop"
    /\ pcap_i < Len(pcap_packets)
    /\ LET p == pcap_packets[pcap_i + 1]
       IN  PacketRaises(RelTime(p.timestamp_us, base_time), p.payload)
    /\ pc' = "pcap_raised"
    /\ UNCHANGED <<fileVars, raw, args, pkt, ad_data, ad_st, reportVars, pcapVars>>

\* the loop is exhausted: the file is closed and its size reported
PcapDone ==
    /\ pc = "pcap_loop"
    /\ pcap_i >= Len(pcap_packets)
    /\ pc' = "pcap_done"
    /\ UNCHANGED <<fileVars, raw, args, pkt, ad_data, ad_st, reportVars, pcapVars>>

NextPcap == PcapParse \/ PcapWriteHeader \/ PcapWritePacket \/ PcapWriteRaises \/ PcapDone

SpecPcap == InitPcap /\ [][NextPcap]_vars

(***************************************************************************)
(* Properties of parse_psd_file                                            *)
(***************************************************************************)
\* the 1-based numbers of the complete records whose payload length byte is >= 4
C1_Kept ==
    SelectSeq([n \in 1..(Len(data) \div 271) |-> n],
              LAMBDA n : data[(n - 1) * 271 + 16] >= 4)

\* C1 as stated: parse_psd_file returns exactly floor(len(buffer) / 271) entries,
\* one per complete 271-byte chunk, in file order.
C1_OnePerChunk ==
    pc = "file_done" =>
        /\ Len(packets) = Len(data) \div 271
        /\ \A k \in 1..Len(packets) : packets[k].record_num = k

\* C1 amended: parse_psd_file returns one entry per complete 271-byte chunk whose
\* payload length byte is at least 4, in file order (so at most floor(len / 271)
\* entries); chunks with a shorter payload and a trailing partial chunk are dropped.
C1_OnePerKeptChunk ==
    pc = "file_done" =>
        /\ Len(packets) = Len(C1_Kept)
        /\ Len(packets) <= Len(data) \div 271
        /\ \A k \in 1..Len(packets) :
              /\ packets[k].record_num = C1_Kept[k]
              /\ packets[k].payload_len = data[(C1_Kept[k] - 1) * 271 + 16]

\* a two-record buffer of which one record was kept and one dropped
C1_Witness ==
    /\ pc = "file_done"
    /\ Len(data) \div 271 = 2
    /\ Len(packets) = 1
    /\ packets[1].record_num = 2

(***************************************************************************)
(* Properties of parse_ble_packet                                          *)
(***************************************************************************)
\* the payload is at least 6 bytes long and starts with D6 BE 89 8E
OnAdvChannel == Len(raw) >= 6 /\ SubSeq(raw, 1, 4) = <<214, 190, 137, 142>>

\* the PDU type nibble of the payload
RawType == raw[5] % 16

\* every field behind the PDU header is at its dataclass default
BodyAtDefaults ==
    /\ pkt.adv_address = "" /\ pkt.scanner_address = ""
    /\ pkt.initiator_address = "" /\ pkt.target_address = ""
    /\ pkt.ad_structures = << >> /\ pkt.device_name = << >>
    /\ pkt.manufacturer = "" /\ pkt.manufacturer_data = ""
    /\ pkt.tx_power = << >> /\ pkt.flags = << >> /\ pkt.service_uuids = << >>
    /\ pkt.conn_access_addr = "" /\ pkt.conn_crc_init = ""
    /\ pkt.conn_interval = 0 /\ pkt.conn_latency = 0 /\ pkt.conn_timeout = 0

\* the identity fields carry the arguments
IdentitySet ==
    /\ pkt.record_num = args.record_num /\ pkt.packet_num = args.packet_num
    /\ pkt.timestamp = args.timestamp
    /\ pkt.timestamp_us.us * 32 + pkt.timestamp_us.frac32 = args.timestamp
    /\ pkt.payload_len = Len(raw) /\ pkt.raw_payload = raw

\* C2: a payload shorter than 6 bytes yields identity fields only; a payload with
\* another access address yields identity plus access address and the DATA_CHANNEL
\* label; in both cases no PDU field, address, AD field, radio status or
\* connection parameter leaves its default.
C2_DecodeOnlyAdvertising ==
    (pc = "pkt_done" /\ ~OnAdvChannel) =>
        /\ IdentitySet
        /\ ~pkt.raised
        /\ pkt.pdu_type = 0 /\ pkt.pdu_length = 0 /\ pkt.tx_addr_type = ""
        /\ pkt.rssi = 0 /\ pkt.channel = 0 /\ pkt.crc_ok = FALSE
        /\ BodyAtDefaults
        /\ IF Len(raw) < 6
           THEN pkt.access_address = "" /\ pkt.pdu_type_name = ""
           ELSE /\ pkt.access_address = hex(SubSeq(raw, 1, 4))
                /\ pkt.pdu_type_name = "DATA_CHANNEL"

\* a data-channel payload long enough to hold a whole CONNECT_IND
C2_Witness ==
    /\ pc = "pkt_done"
    /\ Len(raw) >= 40
    /\ SubSeq(raw, 1, 4) # <<214, 190, 137, 142>>
    /\ RawType = 5
    /\ pkt.pdu_type_name = "DATA_CHANNEL"

\* C3: on the advertising channel, for every PDU type, rssi is the second-to-last
\* byte read as two's complement minus 73 (0x00 gives -73, 0x80 gives -201, the
\* range is -201..54), channel is the low 6 bits of the last byte and crc_ok its
\* top bit.
C3_RadioStatus ==
    (pc = "pkt_done" /\ OnAdvChannel) =>
        LET b == raw[Len(raw) - 1]
            st == raw[Len(raw)]
        IN  /\ pkt.rssi = (IF b > 127 THEN b - 256 ELSE b) - 73
            /\ pkt.rssi >= -201 /\ pkt.rssi <= 54
            /\ (b = 0 => pkt.rssi = -73)
            /\ (b = 128 => pkt.rssi = -201)
            /\ pkt.channel = st % 64
            /\ pkt.crc_ok = (st >= 128)

\* raw RSSI byte 0x80 on a PDU type without a body decoder
C3_Witness ==
    /\ pc = "pkt_done"
    /\ OnAdvChannel
    /\ RawType = 15
    /\ raw[Len(raw) - 1] = 128
    /\ pkt.rssi = -201
    /\ pkt.channel = 37 /\ pkt.crc_ok

\* C4: only the address fields of the PDU type are non-empty: adv_address for
\* 0x00, 0x02, 0x06, 0x04; scanner_address and adv_address for 0x03;
\* initiator_address and adv_address for 0x05; none for the other types, for
\* short payloads and for data-channel payloads; target_address never.
C4_AddressesByType ==
    pc = "pkt_done" =>
        /\ pkt.target_address = ""
        /\ pkt.scanner_address # "" => (OnAdvChannel /\ RawType = 3)
        /\ pkt.initiator_address # "" => (OnAdvChannel /\ RawType = 5)
        /\ pkt.adv_address # "" => (OnAdvChannel /\ RawType \in {0, 2, 3, 4, 5, 6})

\* a SCAN_REQ with both of its addresses and no other
C4_Witness ==
    /\ pc = "pkt_done"
    /\ OnAdvChannel
    /\ RawType = 3
    /\ pkt.scanner_address = "A6:A5:A4:A3:A2:A1"
    /\ pkt.adv_address = "66:55:44:33:22:11"
    /\ pkt.initiator_address = ""

\* the advertising payload is shorter than the minimum of its PDU type
C5_TooShortForType ==
    /\ OnAdvChannel
    /\ \/ RawType \in {0, 2, 4, 6} /\ Len(raw) < 12
       \/ RawType = 3 /\ Len(raw) < 18
       \/ RawType = 5 /\ Len(raw) < 40

\* C5: no payload makes parse_ble_packet raise or read a byte out of range; an
\* advertising payload too short for its PDU type keeps every address, the AD
\* list and the connection parameters at their defaults while the PDU header
\* fields and the radio status are populated.
C5_ShortPayloadTolerated ==
    pc = "pkt_done" =>
        /\ ~pkt.raised
        /\ IdentitySet
        /\ C5_TooShortForType =>
              /\ BodyAtDefaults
              /\ pkt.access_address = "d6be898e"
              /\ pkt.pdu_type = RawType
              /\ pkt.pdu_type_name \in {"ADV_IND", "ADV_NONCONN_IND", "ADV_SCAN_IND",
                                        "SCAN_RSP", "SCAN_REQ", "CONNECT_IND"}
              /\ pkt.tx_addr_type = (IF (raw[5] \div 64) % 2 = 1 THEN "Random" ELSE "Public")
              /\ pkt.pdu_length = raw[6] % 64
              /\ pkt.rssi = (IF raw[Len(raw) - 1] > 127 THEN raw[Len(raw) - 1] - 256
                             ELSE raw[Len(raw) - 1]) - 73
              /\ pkt.channel = raw[Len(raw)] % 64

\* a CONNECT_IND one byte short of its 40-byte minimum
C5_Witness ==
    /\ pc = "pkt_done"
    /\ OnAdvChannel
    /\ RawType = 5
    /\ Len(raw) = 39
    /\ pkt.pdu_type_name = "CONNECT_IND"
    /\ pkt.rssi # 0
    /\ pkt.initiator_address = ""
    /\ pkt.conn_interval = 0

\* C6: a CONNECT_IND of at least 40 bytes gives initiator_address = payload[6..12)
\* reversed, adv_address = payload[12..18) reversed, conn_access_addr =
\* payload[18..22) reversed, conn_crc_init = payload[22..25) in order,
\* conn_interval = LE16(payload[28..30)) * 1.25 ms, conn_latency =
\* LE16(payload[30..32)), conn_timeout = LE16(payload[32..34)) * 10 ms.
C6_ConnectInd ==
    (pc = "pkt_done" /\ OnAdvChannel /\ RawType = 5 /\ Len(raw) >= 40) =>
        /\ pkt.initiator_address
              = JoinColon(<<raw[12], raw[11], raw[10], raw[9], raw[8], raw[7]>>)
        /\ pkt.adv_address
              = JoinColon(<<raw[18], raw[17], raw[16], raw[15], raw[14], raw[13]>>)
        /\ pkt.conn_access_addr
              = hex2(raw[22]) \o hex2(raw[21]) \o hex2(raw[20]) \o hex2(raw[19])
        /\ pkt.conn_crc_init = hex2(raw[23]) \o hex2(raw[24]) \o hex2(raw[25])
        /\ 4 * pkt.conn_interval = 5 * 100 * (raw[29] + 256 * raw[30])
        /\ pkt.conn_latency = raw[31] + 256 * raw[32]
        /\ pkt.conn_timeout = (raw[33] + 256 * raw[34]) * 10

\* the 40-byte CONNECT_IND with interval field 0x0010, decoded to 20.00 ms
C6_Witness ==
    /\ pc = "pkt_done"
    /\ OnAdvChannel
    /\ RawType = 5
    /\ Len(raw) = 40
    /\ raw[29] = 16 /\ raw[30] = 0
    /\ pkt.conn_interval = 2000
    /\ pkt.conn_access_addr = "12345678"
    /\ pkt.conn_crc_init = "abcdef"
    /\ pkt.conn_latency = 258
    /\ pkt.conn_timeout = 5000

\* the payload with its PDU type nibble replaced by t
C7_WithType(t) == [raw EXCEPT ![5] = (raw[5] \div 16) * 16 + t]

\* C7: a SCAN_RSP payload and the same payload with type nibble 0x00 (ADV_IND)
\* decode to the same adv_address, AD structure list and summary fields
\* (device_name, manufacturer, manufacturer_data, tx_power, flags, service_uuids).
C7_ScanRspLikeAdvInd ==
    (pc = "pkt_done" /\ OnAdvChannel /\ RawType = 4) =>
        LET adv == parse_ble_packet(C7_WithType(0), args.record_num, args.packet_num,
                                    args.timestamp)
        IN  /\ pkt.adv_address = adv.adv_address
            /\ pkt.ad_structures = adv.ad_structures
            /\ pkt.device_name = adv.device_name
            /\ pkt.manufacturer = adv.manufacturer
            /\ pkt.manufacturer_data = adv.manufacturer_data
            /\ pkt.tx_power = adv.tx_power
            /\ pkt.flags = adv.flags
            /\ pkt.service_uuids = adv.service_uuids

(***************************************************************************)
(* Properties of parse_ad_structures                                       *)
(***************************************************************************)
\* 0-based offset of the k-th element, from the lengths of the elements before it
RECURSIVE C8_Offset(_, _)
C8_Offset(ss, k) == IF k = 1 THEN 0 ELSE C8_Offset(ss, k - 1) + ss[k - 1].length + 2

\* C8: parse_ad_structures never raises, makes progress on every iteration and
\* returns the maximal prefix of well-formed elements: element k starts where
\* element k-1 ended, its length byte L is >= 1, its L+1 bytes lie inside the
\* buffer (ending exactly at the end is accepted), its type and data are the
\* bytes after the length byte, and the parse stops only at the end of the
\* buffer, at L = 0, or at an element whose span exceeds the remaining bytes.
C8_MaximalPrefix ==
    LET ss == ad_st.structures
        n == Len(ss)
        d == ad_data
        end == C8_Offset(ss, n + 1)
    IN  /\ ~ad_st.raised
        /\ ad_st.i = end
        /\ end <= Len(d)
        /\ 2 * n <= end
        /\ \A k \in 1..n :
              LET o == C8_Offset(ss, k)
                  L == d[o + 1]
              IN  /\ L >= 1
                  /\ o + L <= Len(d) - 1
                  /\ ss[k].type = d[o + 2]
                  /\ ss[k].length = L - 1
                  /\ ss[k].data_hex = hex(SubSeq(d, o + 3, o + 1 + L))
        /\ pc = "ad_done" =>
              \/ end >= Len(d)
              \/ d[end + 1] = 0
              \/ end + d[end + 1] > Len(d) - 1

\* two elements retained, the second ending exactly at the end of the buffer
C8_Witness ==
    /\ pc = "ad_done"
    /\ Len(ad_st.structures) = 2
    /\ ad_st.i = Len(ad_data)
    /\ ad_st.structures[2].length = 0

\* positions of the accepted elements of a type in T with at least minlen data bytes
C9_Idx(ss, T, minlen) == {k \in 1..Len(ss) : ss[k].type \in T /\ ss[k].length >= minlen}

C9_First(S) == CHOOSE k \in S : \A j \in S : k <= j

C9_Last(S) == CHOOSE k \in S : \A j \in S : j <= k

\* tx_power and flags carry the value of the last such element
C9_TxAndFlagsLast ==
    LET ss == ad_st.structures
        info == ad_st.info
        T == C9_Idx(ss, {10}, 1)
        F == C9_Idx(ss, {1}, 1)
    IN  /\ ("tx_power" \in DOMAIN info) = (T # {})
        /\ T # {} => info["tx_power"] = ss[C9_Last(T)].tx_power
        /\ ("flags" \in DOMAIN info) = (F # {})
        /\ F # {} => info["flags"] = ss[C9_Last(F)].flags

\* C9 as stated: device name and manufacturer (name and data) are those of the
\* first Local Name / Manufacturer Specific element in buffer order; tx_power and
\* flags are those of the last such element.
C9_NameFirstWriteWins ==
    pc = "ad_done" =>
        LET ss == ad_st.structures
            info == ad_st.info
            N == C9_Idx(ss, {8, 9}, 1)
            M == C9_Idx(ss, {255}, 2)
        IN  /\ N # {} => info["device_name"] = ss[C9_First(N)].name
            /\ M # {} => /\ info["manufacturer"] = ss[C9_First(M)].company_name
                         /\ info["manufacturer_data"] = ss[C9_First(M)].mfg_data
            /\ C9_TxAndFlagsLast

\* C9 amended: every scalar summary field is last-write-wins: device name,
\* manufacturer name and data, tx_power and flags are those of the last element
\* of their kind that carries data (at least 2 data bytes for Manufacturer
\* Specific), and the key is absent when there is no such element.
C9_LastWriteWins ==
    pc = "ad_done" =>
        LET ss == ad_st.structures
            info == ad_st.info
            N == C9_Idx(ss, {8, 9}, 1)
            M == C9_Idx(ss, {255}, 2)
        IN  /\ ("device_name" \in DOMAIN info) = (N # {})
            /\ N # {} => info["device_name"] = ss[C9_Last(N)].name
            /\ ("manufacturer" \in DOMAIN info) = (M # {})
            /\ ("manufacturer_data" \in DOMAIN info) = (M # {})
            /\ M # {} => /\ info["manufacturer"] = ss[C9_Last(M)].company_name
                         /\ info["manufacturer_data"] = ss[C9_Last(M)].mfg_data
            /\ C9_TxAndFlagsLast

\* two Local Name elements with different names, the summary carrying the second
C9_Witness ==
    /\ pc = "ad_done"
    /\ Len(ad_st.structures) = 2
    /\ ad_st.structures[1].type = 9 /\ ad_st.structures[1].length = 2
    /\ ad_st.structures[2].type = 8 /\ ad_st.structures[2].length = 1
    /\ ad_st.structures[1].name = <<65, 66>>
    /\ ad_st.structures[2].name = <<67>>
    /\ ad_st.info["device_name"] = <<67>>

\* the advertising PDU (ADV_IND) carrying the AD bytes ad
C10_Pdu(ad) == <<214, 190, 137, 142, 0, 0>> \o AdvAddr \o ad \o <<0, 0>>

\* the name parse_ad_structures and parse_ble_packet recover from the AD bytes
C10_Recovers(n) ==
    /\ Get(ad_st.info, "device_name", << >>) = n
    /\ parse_ble_packet(C10_Pdu(ad_data), 1, 1, 0).device_name = n

\* C10 as stated: every non-empty device name, encoded as one Complete Local Name
\* element, is recovered unchanged.
C10_RoundTrip ==
    pc = "ad_done" =>
        \A n \in Names : ad_data = NameElement(n) => C10_Recovers(n)

\* C10 amended: every non-empty device name that does not end in a NUL character,
\* encoded as one Complete Local Name element, is recovered unchanged.
C10_RoundTripNoTrailingNul ==
    pc = "ad_done" =>
        \A n \in Names : (ad_data = NameElement(n) /\ n[Len(n)] # 0) => C10_Recovers(n)

\* a two-character name with a leading NUL and a 4-byte UTF-8 character, recovered
C10_Witness ==
    /\ pc = "ad_done"
    /\ ad_data = <<6, 9, 0, 240, 159, 152, 128>>
    /\ ad_st.info["device_name"] = <<0, 128512>>

(***************************************************************************)
(* Properties of the advertising data slice and of the payload slice       *)
(***************************************************************************)
\* C11: for PDU types 0x00, 0x02 and 0x06, AD data are parsed only when the
\* payload is longer than 14 bytes and are then exactly payload[12 .. len-2):
\* the accepted elements lie before the two trailing bytes; a 14-byte payload
\* with header 0x00 0x00 decodes to ADV_IND with a populated adv_address and an
\* empty AD structure list.
C11_AdDataSlice ==
    (pc = "pkt_done" /\ OnAdvChannel /\ RawType \in {0, 2, 6}) =>
        LET ss == pkt.ad_structures
        IN  /\ Len(raw) <= 14 =>
                  /\ ss = << >>
                  /\ pkt.device_name = << >> /\ pkt.flags = << >> /\ pkt.tx_power = << >>
            /\ Len(raw) > 14 =>
                  /\ ss = parse_ad_structures(SubSeq(raw, 13, Len(raw) - 2)).structures
                  /\ C8_Offset(ss, Len(ss) + 1) <= Len(raw) - 14
                  /\ \A k \in 1..Len(ss) :
                        /\ ss[k].type = raw[12 + C8_Offset(ss, k) + 2]
                        /\ ss[k].length = raw[12 + C8_Offset(ss, k) + 1] - 1
            /\ (Len(raw) = 14 /\ raw[5] = 0 /\ raw[6] = 0) =>
                  /\ pkt.pdu_type_name = "ADV_IND"
                  /\ pkt.adv_address
                        = JoinColon(<<raw[12], raw[11], raw[10], raw[9], raw[8], raw[7]>>)
                  /\ ss = << >>

\* an ADV_IND whose second element would fit only if the two trailing bytes
\* belonged to the AD data: one element is accepted
C11_Witness ==
    /\ pc = "pkt_done"
    /\ OnAdvChannel
    /\ RawType = 0
    /\ Len(raw) = 34
    /\ raw[31] = 2 /\ raw[32] = 1
    /\ Len(pkt.ad_structures) = 1
    /\ pkt.ad_structures[1].length = 16

\* C13: the payload handed to the decoder is exactly the payload_len bytes that
\* start at record offset 16; payload_len <= 271 - 16, so the payload lies inside
\* its own record and is never truncated.
C13_PayloadExact ==
    \A k \in 1..Len(packets) :
        LET base == (packets[k].record_num - 1) * 271
            plen == data[base + 16]
        IN  /\ plen <= 271 - 16
            /\ packets[k].payload_len = plen
            /\ Len(packets[k].raw_payload) = plen
            /\ base + 16 + plen <= base + 271
            /\ \A j \in 1..plen : packets[k].raw_payload[j] = data[base + 16 + j]

\* a 255-byte payload of the first of two records, reaching the last record byte
C13_Witness ==
    /\ pc = "file_done"
    /\ Len(data) \div 271 = 2
    /\ Len(packets) = 2
    /\ packets[1].record_num = 1
    /\ packets[1].payload_len = 255
    /\ packets[1].raw_payload[255] = 238
    /\ data[272] = 1

(***************************************************************************)
(* Properties of the flattened service UUID list                           *)
(***************************************************************************)
\* the UUID strings of the accepted element k, read from the buffer: consecutive
\* 2-byte little-endian values, a trailing odd byte dropped
C14_ElementUuids(d, ss, k) ==
    LET o == C8_Offset(ss, k)
    IN  [j \in 1..(ss[k].length \div 2) |->
            "0x" \o HEX2(d[o + 2 + 2 * j]) \o HEX2(d[o + 1 + 2 * j])]

\* the concatenation of the UUID lists of the 0x02/0x03 elements among the first k
RECURSIVE C14_AllUuids(_, _, _)
C14_AllUuids(d, ss, k) ==
    IF k = 0 THEN << >>
    ELSE C14_AllUuids(d, ss, k - 1)
         \o (IF ss[k].type \in {2, 3} THEN C14_ElementUuids(d, ss, k) ELSE << >>)

\* C14 as stated: the flattened service UUID list is the UUID list of the last
\* 0x02/0x03 element.
C14_UuidsLastWriteWins ==
    pc = "ad_done" =>
        LET ss == ad_st.structures
            U == C9_Idx(ss, {2, 3}, 0)
        IN  U # {} => ad_st.info["service_uuids"] = C14_ElementUuids(ad_data, ss, C9_Last(U))

\* C14 amended: the flattened service UUID list accumulates: it is the
\* concatenation, in buffer order, of the UUID lists of all 0x02/0x03 elements,
\* each list being the element's consecutive 2-byte little-endian values with a
\* trailing odd byte dropped; the key is absent when there is no such element.
C14_UuidsAccumulate ==
    pc = "ad_done" =>
        LET ss == ad_st.structures
            U == C9_Idx(ss, {2, 3}, 0)
        IN  /\ ("service_uuids" \in DOMAIN ad_st.info) = (U # {})
            /\ U # {} => ad_st.info["service_uuids"] = C14_AllUuids(ad_data, ss, Len(ss))
            /\ \A k \in U : ss[k].uuids = C14_ElementUuids(ad_data, ss, k)

\* two UUID elements, the second with an odd trailing byte: both lists are kept
C14_Witness ==
    /\ pc = "ad_done"
    /\ ad_data = <<3, 3, 15, 24, 4, 2, 1, 2, 3>>
    /\ ad_st.info["service_uuids"] = <<"0x180F", "0x0201">>

(***************************************************************************)
(* Properties of the device table of analyze_and_report                    *)
(***************************************************************************)
\* the packets among the first n whose table key is the address a
C12_Attributed(a, n) == {k \in 1..n : ReportAddr(packets[k]) = a}

C12_Min(S) == CHOOSE m \in S : \A x \in S : m <= x

\* the first non-empty device name among the packets of S, else the empty name
C12_FirstName(S) ==
    LET N == {k \in S : packets[k].device_name # << >>}
    IN  IF N = {} THEN << >> ELSE packets[C12_Min(N)].device_name

C12_FirstManufacturer(S) ==
    LET N == {k \in S : packets[k].manufacturer # ""}
    IN  IF N = {} THEN "" ELSE packets[C12_Min(N)].manufacturer

RECURSIVE C12_Sum(_, _)
C12_Sum(f, S) ==
    IF S = {} THEN 0 ELSE LET x == CHOOSE y \in S : TRUE IN f[x] + C12_Sum(f, S \ {x})

\* after every iteration: each entry holds the first non-empty name and
\* manufacturer of its packets, its count is the number of its packets, and the
\* histogram counts sum to the number of packets consumed
C12_Table ==
    pc \in {"report_loop", "report_done"} =>
        /\ DOMAIN devices = {ReportAddr(packets[k]) : k \in 1..rep_i} \ {""}
        /\ \A a \in DOMAIN devices :
              LET S == C12_Attributed(a, rep_i)
              IN  /\ devices[a].name = C12_FirstName(S)
                  /\ devices[a].manufacturer = C12_FirstManufacturer(S)
                  /\ devices[a].count = Cardinality(S)
        /\ \A t \in DOMAIN pdu_counts :
              pdu_counts[t] = Cardinality({k \in 1..rep_i : packets[k].pdu_type_name = t})
        /\ C12_Sum(pdu_counts, DOMAIN pdu_counts) = rep_i
        /\ pc = "report_done" => rep_i = Len(packets)

\* a step never removes an entry and never changes a non-empty name or manufacturer
C12_Stable ==
    \A a \in DOMAIN devices :
        /\ a \in DOMAIN devices'
        /\ devices[a].name # << >> => devices'[a].name = devices[a].name
        /\ devices[a].manufacturer # "" => devices'[a].manufacturer = devices[a].manufacturer
        /\ devices'[a].count >= devices[a].count

\* C12: in the device table of analyze_and_report each address's name and
\* manufacturer are first-write-wins across packets (the first non-empty value
\* in file order, never changed once non-empty), the count is the number of
\* packets attributed to the address and the PDU type histogram sums to the
\* number of packets.
C12_FirstWriteWins == []C12_Table /\ [][C12_Stable]_vars

\* three packets of one advertiser: names "AB" then "C", manufacturers Apple
\* then another one; the table keeps "AB" and the first manufacturer
C12_Witness ==
    /\ pc = "report_done"
    /\ Len(packets) = 3
    /\ packets[1].device_name = <<65, 66>>
    /\ packets[2].device_name = <<67>>
    /\ packets[2].manufacturer # ""
    /\ packets[3].manufacturer # ""
    /\ packets[3].manufacturer # packets[2].manufacturer
    /\ DOMAIN devices = {packets[1].adv_address}
    /\ devices[packets[1].adv_address].count = 3
    /\ devices[packets[1].adv_address].name = <<65, 66>>
    /\ devices[packets[1].adv_address].manufacturer = packets[2].manufacturer

\* C16: a packet with a scanner or initiator address has an advertiser address,
\* so the device table key is always the advertiser address: SCAN_REQ and
\* CONNECT_IND packets are counted under the advertiser and no scanner or
\* initiator gets an entry of its own.
C16_KeyIsAdvertiser ==
    pc \in {"report_loop", "report_done"} =>
        /\ \A k \in 1..Len(packets) :
              /\ (packets[k].scanner_address # "" \/ packets[k].initiator_address # "")
                    => packets[k].adv_address # ""
              /\ ReportAddr(packets[k]) = packets[k].adv_address
        /\ DOMAIN devices = {packets[k].adv_address : k \in 1..rep_i} \ {""}
        /\ \A k \in 1..rep_i :
              (packets[k].scanner_address # "" \/ packets[k].initiator_address # "") =>
                  /\ packets[k].pdu_type \in {3, 5}
                  /\ packets[k].adv_address
                        = bytes_to_mac(SubSeq(packets[k].raw_payload, 13, 18))
                  /\ packets[k].pdu_type_name \in devices[packets[k].adv_address].pdu_types

\* a scan request and a connection request towards two advertisers: the table
\* has the two advertisers and not the scanner
C16_Witness ==
    /\ pc = "report_done"
    /\ Len(packets) = 2
    /\ packets[1].pdu_type = 3 /\ packets[1].scanner_address # ""
    /\ packets[2].pdu_type = 5 /\ packets[2].initiator_address # ""
    /\ packets[1].scanner_address = packets[2].initiator_address
    /\ DOMAIN devices = {packets[1].adv_address, packets[2].adv_address}
    /\ packets[1].scanner_address \notin DOMAIN devices
    /\ Cardinality(DOMAIN devices) = 2

(***************************************************************************)
(* Properties of the PCAP converter                                        *)
(***************************************************************************)
\* the converter selects the records the decoder selects, in the same order,
\* with the same payload bytes, packet numbers and microsecond timestamps
C15_SameSelection ==
    pc \in {"pcap_open", "pcap_loop", "pcap_done", "pcap_raised"} =>
        LET dec == parse_psd_file(data)
        IN  /\ Len(pcap_packets) = Len(dec)
            /\ \A k \in 1..Len(dec) :
                  /\ pcap_packets[k].payload = dec[k].raw_payload
                  /\ pcap_packets[k].packet_num = dec[k].packet_num
                  /\ pcap_packets[k].timestamp_us = dec[k].timestamp_us
                  /\ Len(pcap_packets[k].payload) >= 4

RECURSIVE C15_Size(_, _)
C15_Size(pkts, n) ==
    IF n = 0 THEN 24 ELSE C15_Size(pkts, n - 1) + 16 + Len(pkts[n].payload)

\* the packets 1..n are laid out in the file one after the other, each with a
\* 16-byte header whose captured and original lengths are the payload length
C15_Layout(n) ==
    /\ Len(out) = C15_Size(pcap_packets, n)
    /\ \A k \in 1..n :
          LET o == C15_Size(pcap_packets, k - 1)
              l == Len(pcap_packets[k].payload)
          IN  /\ unpack_I(SubSeq(out, o + 9, o + 12)) = l
              /\ unpack_I(SubSeq(out, o + 13, o + 16)) = l
              /\ SubSeq(out, o + 17, o + 16 + l) = pcap_packets[k].payload

\* what the converter does write: a 24-byte header and the packets consumed
C15_WrittenSoFar ==
    pc \in {"pcap_loop", "pcap_done", "pcap_raised"} =>
        /\ SubSeq(out, 1, 24) = PcapHeader(DLT_BLUETOOTH_LE_LL)
        /\ C15_Layout(pcap_i)

\* C15: the PCAP converter is a straight reformat of the record stream of the
\* decoder: same records, order, payloads, packet numbers and timestamps, and
\* for every buffer the written file has 24 + sum(16 + len(payload)) bytes with
\* captured length = original length = len(payload) in each packet header.
C15_StraightReformat ==
    /\ C15_SameSelection
    /\ pc \in {"pcap_done", "pcap_raised"} => C15_Layout(Len(pcap_packets))

====
